---- MODULE Spec2Model ----
(***************************************************************************)
(* The map edit mode of the editor (editor/src/edit/mod.rs): lane-type     *)
(* toggles, the stop-sign turn-priority cycle, saving and loading of named *)
(* map edits.  One action per outcome of one call of EditMode::event.      *)
(***************************************************************************)
EXTENDS Integers, Sequences, FiniteSets, TLC

VARIABLES
    road,             \* the road: [fwd, back], each the sequence of lane ids of a side
    base_lt,          \* lane id -> lane type of the base map
    lane_type,        \* lane id -> Lane::lane_type of the live map (effective type)
    base_stop_signs,  \* intersection -> default stop sign record of the base map
    stop_signs,       \* intersection -> stop sign record of the live map
    base_signals,     \* intersection -> default traffic signal of the base map
    traffic_signals,  \* intersection -> traffic signal of the live map
    edits,            \* Map::get_edits(): the active overlay record
    mode,             \* state.mode
    saved,            \* durable storage: <<map name, edits name>> -> stored bytes
    last,             \* the last event handled and what it did (history)
    notifications,    \* "derived state invalidated" notices the host got in the last event
    spent             \* number of edits and writes explored so far (exploration bound)

vars == <<road, base_lt, lane_type, base_stop_signs, stop_signs, base_signals,
          traffic_signals, edits, mode, saved, last, notifications, spent>>

-----------------------------------------------------------------------------
(* Bounds of the exploration *)

\* lanes on the forward side of the road in the lane-editing specification
MaxLanes == 3
\* overlay edits (toggles, resets, signal commits) and writes to storage in
\* one run of the editor
MaxEdits == 4

-----------------------------------------------------------------------------
(* Data *)

None == "None"

LaneTypes == {"Driving", "Parking", "Biking", "Bus", "Sidewalk"}

Priorities == {"Banned", "Stop", "Yield", "Priority"}

MapName == "montlake"

Names == {"no_edits", "a"}

EmptyMap == [x \in {} |-> None]

\* HashMap/BTreeMap insert and remove
MapInsert(m, k, v) == [x \in (DOMAIN m) \cup {k} |-> IF x = k THEN v ELSE m[x]]

MapRemove(m, k) == [x \in (DOMAIN m) \ {k} |-> m[x]]

Lanes == DOMAIN base_lt

-----------------------------------------------------------------------------
(* Lane editing: next_valid_type, next_type, can_change_lane_type *)

\* Road::dir_and_offset: the side of the lane (TRUE = forwards) and its
\* 0-based position on that side
dir_and_offset(r, l) ==
    IF \E k \in DOMAIN r.fwd : r.fwd[k] = l
    THEN <<TRUE, (CHOOSE k \in DOMAIN r.fwd : r.fwd[k] = l) - 1>>
    ELSE <<FALSE, (CHOOSE k \in DOMAIN r.back : r.back[k] = l) - 1>>

\* Road::get_lane_types: the current lane types of both sides, in order
get_lane_types(r) ==
    <<[k \in DOMAIN r.fwd |-> lane_type[r.fwd[k]]],
      [k \in DOMAIN r.back |-> lane_type[r.back[k]]]>>

\* a Parking check that looks only at the lane being changed
parking_check_self_only(types, idx, lt) ==
    ~(lt = "Parking" /\ types[idx + 1] = "Parking")

\* lines 376-387: the Parking check of can_change_lane_type, with the side's
\* types and the lane's 0-based position given
parking_check(types, idx, lt) ==
    ~(lt = "Parking" /\ \E k \in DOMAIN types : types[k] = "Parking")

\* a Biking check that looks at the preceding lane only
biking_check_prev_only(types, idx, lt) ==
    ~(lt = "Biking" /\ (idx # 0 /\ types[idx] = "Biking"))

\* lines 389-401: the Biking check of can_change_lane_type; idx is 0-based,
\* types is 1-based
biking_check(types, idx, lt) ==
    ~(lt = "Biking" /\
        (\/ (idx # 0 /\ types[idx] = "Biking")
         \/ (idx + 2 \in DOMAIN types /\ types[idx + 2] = "Biking")))

\* lines 373-404 with the checks of Parking and Biking applied to every
\* requested type
can_change_lane_type_any_type(r, l, lt) ==
    LET d     == dir_and_offset(r, l)
        fwds  == d[1]
        idx   == d[2]
        types == IF fwds THEN get_lane_types(r)[1] ELSE get_lane_types(r)[2]
    IN  parking_check(types, idx, "Parking") /\ biking_check(types, idx, "Biking")

\* lines 373-404: the lane l of the road r may take the type lt
can_change_lane_type(r, l, lt) ==
    LET d     == dir_and_offset(r, l)
        fwds  == d[1]
        idx   == d[2]
        types == IF fwds THEN get_lane_types(r)[1] ELSE get_lane_types(r)[2]
    IN  parking_check(types, idx, lt) /\ biking_check(types, idx, lt)

\* the cycle walked backwards
next_type_reversed(lt) ==
    CASE lt = "Driving" -> "Bus"
      [] lt = "Parking" -> "Driving"
      [] lt = "Biking"  -> "Parking"
      [] lt = "Bus"     -> "Biking"
      [] OTHER          -> "unreachable"

\* lines 362-371 with the Parking arm giving Parking again
next_type_parking_sticks(lt) ==
    CASE lt = "Driving" -> "Parking"
      [] lt = "Parking" -> "Parking"
      [] lt = "Biking"  -> "Bus"
      [] lt = "Bus"     -> "Driving"
      [] OTHER          -> "unreachable"

\* lines 362-371: next_type; the Sidewalk arm is unreachable!() and panics
next_type(lt) ==
    CASE lt = "Driving" -> "Parking"
      [] lt = "Parking" -> "Biking"
      [] lt = "Biking"  -> "Bus"
      [] lt = "Bus"     -> "Driving"
      [] OTHER          -> "unreachable"

\* the while loop of next_valid_type, entered with the candidate new_type;
\* a panic of next_type propagates
RECURSIVE next_valid_scan(_, _, _)
next_valid_scan(r, l, new_type) ==
    IF new_type = "unreachable" THEN "unreachable"
    ELSE IF new_type = lane_type[l] THEN None
    ELSE IF can_change_lane_type(r, l, new_type) THEN new_type
    ELSE next_valid_scan(r, l, next_type(new_type))

next_valid_type(r, l) == next_valid_scan(r, l, next_type(lane_type[l]))

\* the arguments next_type is evaluated on during next_valid_type(r, l), in order
RECURSIVE next_type_args_from(_, _, _)
next_type_args_from(r, l, new_type) ==
    IF new_type = "unreachable" \/ new_type = lane_type[l]
       \/ can_change_lane_type(r, l, new_type)
    THEN <<>>
    ELSE <<new_type>> \o next_type_args_from(r, l, next_type(new_type))

next_type_args(r, l) ==
    <<lane_type[l]>> \o next_type_args_from(r, l, next_type(lane_type[l]))

\* the candidates the while loop of lines 353-358 passes to
\* can_change_lane_type, in order, followed for at most fuel iterations; a
\* loop that is still running then is reported by the mark "unending"
RECURSIVE scan_candidates(_, _, _, _)
scan_candidates(r, l, new_type, fuel) ==
    IF new_type = "unreachable" \/ new_type = lane_type[l] THEN <<>>
    ELSE IF fuel = 0 THEN <<"unending">>
    ELSE IF can_change_lane_type(r, l, new_type) THEN <<new_type>>
    ELSE <<new_type>> \o scan_candidates(r, l, next_type(new_type), fuel - 1)

\* the candidates of next_valid_type(r, l); a scan longer than the number of
\* lane types repeats a candidate
candidates(r, l) ==
    scan_candidates(r, l, next_type(lane_type[l]), Cardinality(LaneTypes))

-----------------------------------------------------------------------------
(* Applying an overlay *)

\* the live lane types, stop signs and signals that Map::apply_edits derives
\* from an overlay: the base default overridden by the overlay's entries
effective_lanes(e) ==
    [l \in Lanes |-> IF l \in DOMAIN e.lane_overrides
                     THEN e.lane_overrides[l] ELSE base_lt[l]]

effective_stop_signs(e) ==
    [i \in DOMAIN base_stop_signs |->
        IF i \in DOMAIN e.stop_sign_overrides
        THEN e.stop_sign_overrides[i] ELSE base_stop_signs[i]]

effective_signals(e) ==
    [i \in DOMAIN base_signals |->
        IF i \in DOMAIN e.traffic_signal_overrides
        THEN e.traffic_signal_overrides[i] ELSE base_signals[i]]

\* apply that forgets to revert lanes whose override went away
apply_edits_no_revert(new_edits) ==
    /\ edits' = new_edits
    /\ lane_type' = [l \in Lanes |-> IF l \in DOMAIN new_edits.lane_overrides
                                     THEN new_edits.lane_overrides[l]
                                     ELSE lane_type[l]]
    /\ stop_signs' = [i \in DOMAIN base_stop_signs |->
                        IF i \in DOMAIN new_edits.stop_sign_overrides
                        THEN new_edits.stop_sign_overrides[i] ELSE stop_signs[i]]
    /\ traffic_signals' = effective_signals(new_edits)

\* Map::apply_edits: the overlay is installed and the live map derived from it
apply_edits(new_edits) ==
    /\ edits' = new_edits
    /\ lane_type' = effective_lanes(new_edits)
    /\ stop_signs' = effective_stop_signs(new_edits)
    /\ traffic_signals' = effective_signals(new_edits)

\* plugins::apply_map_edits, called with the host's PluginCtx: Map::apply_edits
\* and the one notice that lets the host redraw and reset what it derived
apply_map_edits(new_edits) ==
    /\ apply_edits(new_edits)
    /\ notifications' = 1

BaseUnchanged == UNCHANGED <<road, base_lt, base_stop_signs, base_signals>>

-----------------------------------------------------------------------------
(* EditMode::event, ViewingDiffs, a lane is selected *)

\* the guard of line 67 left out
lane_editable_always(l) == TRUE

\* line 67: the lane may be edited at all

lane_editable(l) == lane_type[l] # "Sidewalk"

\* lines 73-74 starting from empty lane overrides instead of the clone's
with_lane_override_fresh(e, l, new_type) ==
    [e EXCEPT !.lane_overrides = MapInsert(EmptyMap, l, new_type)]

\* lines 73-74: a clone of the overlay with the toggle's entry inserted
with_lane_override(e, l, new_type) ==
    [e EXCEPT !.lane_overrides = MapInsert(e.lane_overrides, l, new_type)]

\* the lane l is selected and Space is pressed
event_toggle_lane(l) ==
    /\ mode.kind = "ViewingDiffs"
    /\ lane_editable(l)
    /\ LET new_type == next_valid_type(road, l) IN
         IF new_type = "unreachable"
         THEN /\ mode' = [kind |-> "Panicked"]
              /\ last' = [op |-> "panic"]
              /\ UNCHANGED <<lane_type, stop_signs, traffic_signals, edits>>
              /\ notifications' = 0
         ELSE /\ new_type # None
              /\ apply_map_edits(with_lane_override(edits, l, new_type))
              /\ last' = [op |-> "toggle_lane"]
              /\ UNCHANGED mode
    /\ UNCHANGED saved
    /\ BaseUnchanged

-----------------------------------------------------------------------------
(* Intersections and turns of the base map *)

\* turns of the first stop-sign intersection
MaxTurns == 3

StopSignIntersections == {1, 2}

SignalIntersections == {3}

\* TurnID: <<parent intersection, number>>
IntersectionTurns(i) ==
    CASE i = 1 -> {<<1, k>> : k \in 1..MaxTurns}
      [] i = 2 -> {<<2, 1>>}
      [] OTHER -> {<<3, 1>>, <<3, 2>>}

\* Turn::conflicts_with: turns of one intersection whose paths cross; here
\* neighbouring turns of an intersection cross
conflicts_with(t, u) ==
    /\ t # u
    /\ t[1] = u[1]
    /\ (t[2] - u[2] = 1 \/ u[2] - t[2] = 1)

\* ControlStopSign::get_priority
get_priority(sign, t) == sign.turns[t]

\* ControlStopSign::could_be_priority_turn: no other turn of the sign that
\* conflicts with t is Priority
could_be_priority_turn(sign, t) ==
    \A u \in DOMAIN sign.turns :
        ~(sign.turns[u] = "Priority" /\ conflicts_with(t, u))

\* lines 163-174 with the feasibility test dropped
next_priority_unchecked(sign, t) ==
    CASE get_priority(sign, t) = "Banned" -> "Stop"
      [] get_priority(sign, t) = "Stop"   -> "Yield"
      [] get_priority(sign, t) = "Yield"  -> "Priority"
      [] OTHER                            -> "Banned"

\* lines 163-174 with an infeasible Priority leaving the turn at Yield
next_priority_stays_yield(sign, t) ==
    CASE get_priority(sign, t) = "Banned" -> "Stop"
      [] get_priority(sign, t) = "Stop"   -> "Yield"
      [] get_priority(sign, t) = "Yield"  ->
            IF could_be_priority_turn(sign, t) THEN "Priority" ELSE "Yield"
      [] OTHER                            -> "Banned"

\* lines 163-174 with the feasibility test of line 167 negated
next_priority_negated(sign, t) ==
    CASE get_priority(sign, t) = "Banned" -> "Stop"
      [] get_priority(sign, t) = "Stop"   -> "Yield"
      [] get_priority(sign, t) = "Yield"  ->
            IF ~could_be_priority_turn(sign, t) THEN "Priority" ELSE "Banned"
      [] OTHER                            -> "Banned"

\* lines 163-174: the match on the turn's current priority
next_priority(sign, t) ==
    CASE get_priority(sign, t) = "Banned" -> "Stop"
      [] get_priority(sign, t) = "Stop"   -> "Yield"
      [] get_priority(sign, t) = "Yield"  ->
            IF could_be_priority_turn(sign, t) THEN "Priority" ELSE "Banned"
      [] OTHER                            -> "Banned"

\* line 179 building a record of the toggled turn alone
with_turn_alone(sign, t, p) == [sign EXCEPT !.turns = MapInsert(EmptyMap, t, p)]

\* line 179: sign.turns.insert(t, next_priority) on the cloned sign
with_turn(sign, t, p) == [sign EXCEPT !.turns = MapInsert(sign.turns, t, p)]

\* line 93 without the test: the stop sign editor is offered everywhere
maybe_get_stop_sign_any(i) == TRUE

\* Map::maybe_get_stop_sign / maybe_get_traffic_signal (.is_some())
maybe_get_stop_sign(i) == i \in DOMAIN stop_signs

maybe_get_traffic_signal(i) == i \in DOMAIN traffic_signals

\* the traffic signal records the signal editor can produce: phases in order
SignalPlans == { <<{<<3, 1>>}, {<<3, 2>>}>>, <<{<<3, 1>>, <<3, 2>>}>> }

-----------------------------------------------------------------------------
(* Persisted overlay records *)

\* the elements of a finite set of numbers in ascending order
RECURSIVE Ascending(_)
Ascending(S) ==
    IF S = {} THEN <<>>
    ELSE LET m == CHOOSE x \in S : \A y \in S : x <= y
         IN  <<m>> \o Ascending(S \ {m})

\* a mapping written out as the list of its <<key, value>> entries by key
to_entries(m) ==
    LET ks == Ascending(DOMAIN m)
    IN  [j \in DOMAIN ks |-> <<ks[j], m[ks[j]]>>]

\* the mapping read back from a list of entries; a later entry of a key wins
from_entries(es) ==
    [k \in {es[j][1] : j \in DOMAIN es} |->
        es[CHOOSE j \in DOMAIN es :
              es[j][1] = k /\ \A j2 \in DOMAIN es : es[j2][1] = k => j2 <= j][2]]

\* serialization that loses the stop sign overrides
serialize_lossy(e) ==
    [edits_name |-> e.edits_name,
     lane_overrides |-> to_entries(e.lane_overrides),
     stop_sign_overrides |-> <<>>,
     traffic_signal_overrides |-> to_entries(e.traffic_signal_overrides)]

\* the stored form of an overlay record
serialize(e) ==
    [edits_name |-> e.edits_name,
     lane_overrides |-> to_entries(e.lane_overrides),
     stop_sign_overrides |-> to_entries(e.stop_sign_overrides),
     traffic_signal_overrides |-> to_entries(e.traffic_signal_overrides)]

deserialize(b) ==
    [edits_name |-> b.edits_name,
     lane_overrides |-> from_entries(b.lane_overrides),
     stop_sign_overrides |-> from_entries(b.stop_sign_overrides),
     traffic_signal_overrides |-> from_entries(b.traffic_signal_overrides)]

\* MapEdits::save: the record is written under (map, its own name)
save(e) == saved' = MapInsert(saved, <<MapName, e.edits_name>>, serialize(e))

\* MapEdits::new: the empty overlay of a freshly loaded map
no_edits ==
    [edits_name |-> "no_edits",
     lane_overrides |-> EmptyMap,
     stop_sign_overrides |-> EmptyMap,
     traffic_signal_overrides |-> EmptyMap]

-----------------------------------------------------------------------------
(* EditMode::event: the other events of ViewingDiffs *)

\* no overlay is installed in this event, and the host gets no notice
Unedited ==
    /\ UNCHANGED <<lane_type, stop_signs, traffic_signals, edits>>
    /\ notifications' = 0

\* lines 39-43: "quit" in ViewingDiffs, Saving or Loading leaves edit mode
event_quit ==
    /\ mode.kind \in {"ViewingDiffs", "Saving", "Loading"}
    /\ mode' = [kind |-> "SplashScreen"]
    /\ last' = [op |-> "quit", from |-> mode.kind]
    /\ Unedited /\ UNCHANGED saved /\ BaseUnchanged

\* lines 51-52: "save edits" opens the save dialog with a fresh wizard
event_save_edits ==
    /\ mode.kind = "ViewingDiffs"
    /\ mode' = [kind |-> "Saving", name |-> None]
    /\ last' = [op |-> "save_edits"]
    /\ Unedited /\ UNCHANGED saved /\ BaseUnchanged

\* lines 53-54: "load different edits" opens the load dialog
event_load_different_edits ==
    /\ mode.kind = "ViewingDiffs"
    /\ mode' = [kind |-> "Loading"]
    /\ last' = [op |-> "load_different_edits"]
    /\ Unedited /\ UNCHANGED saved /\ BaseUnchanged

\* lines 92-99: a stop-sign intersection is selected and E is pressed
event_edit_stop_signs(i) ==
    /\ mode.kind = "ViewingDiffs"
    /\ maybe_get_stop_sign(i)
    /\ mode' = [kind |-> "EditingStopSign", i |-> i]
    /\ last' = [op |-> "edit_stop_signs"]
    /\ Unedited /\ UNCHANGED saved /\ BaseUnchanged

\* lines 100-114: a signalled intersection is selected and E is pressed
event_edit_traffic_signal(i) ==
    /\ mode.kind = "ViewingDiffs"
    /\ maybe_get_traffic_signal(i)
    /\ mode' = [kind |-> "EditingTrafficSignal", i |-> i]
    /\ last' = [op |-> "edit_traffic_signal"]
    /\ Unedited /\ UNCHANGED saved /\ BaseUnchanged

-----------------------------------------------------------------------------
(* EditMode::event, Saving: save_edits driven by the wizard *)

\* line 325: the overlay was never named, so save_edits asks for a name
needs_rename == edits.edits_name = "no_edits"

\* line 326 with the typed name applied to the overlay at once
event_saving_name_applies(n) ==
    /\ mode.kind = "Saving"
    /\ needs_rename
    /\ mode.name = None
    /\ mode' = [mode EXCEPT !.name = n]
    /\ last' = [op |-> "saving_name", name |-> n]
    /\ apply_edits([edits EXCEPT !.edits_name = n])
    /\ notifications' = 0
    /\ UNCHANGED saved /\ BaseUnchanged

\* line 326: the user finishes typing the name n; the wizard keeps it and the
\* menu of line 335 is not answered in this event
event_saving_name(n) ==
    /\ mode.kind = "Saving"
    /\ needs_rename
    /\ mode.name = None
    /\ mode' = [mode EXCEPT !.name = n]
    /\ last' = [op |-> "saving_name", name |-> n]
    /\ Unedited /\ UNCHANGED saved /\ BaseUnchanged

\* lines 123-125: the wizard is aborted at the name prompt or at the menu
event_saving_abort ==
    /\ mode.kind = "Saving"
    /\ mode' = [kind |-> "ViewingDiffs"]
    /\ last' = [op |-> "saving_abort", typed |-> mode.name]
    /\ Unedited /\ UNCHANGED saved /\ BaseUnchanged

\* lines 339-344 without the rename of lines 339-343
rename_and_save_no_rename(rename) ==
    /\ Unedited
    /\ save(edits)

\* lines 339-344 saving the overlay as it was before the rename
rename_and_save_stale(rename) ==
    IF rename # None
    THEN /\ apply_edits([edits EXCEPT !.edits_name = rename])
         /\ notifications' = 0
         /\ save(edits)
    ELSE /\ Unedited
         /\ save(edits)

\* lines 339-344: rename the active overlay if a name was asked for, then save.
\* Line 342 calls Map::apply_edits itself, with a Timer and no PluginCtx, so
\* the host is not told of this installation
rename_and_save(rename) ==
    IF rename # None
    THEN /\ apply_edits([edits EXCEPT !.edits_name = rename])
         /\ notifications' = 0
         /\ save([edits EXCEPT !.edits_name = rename])
    ELSE /\ Unedited
         /\ save(edits)

\* lines 334-346 without the mode change of lines 117-127: the dialog is
\* answered and the editor stays in Saving
event_saving_choose_stays(choice) ==
    /\ mode.kind = "Saving"
    /\ needs_rename => mode.name # None
    /\ LET rename == IF needs_rename THEN mode.name ELSE None IN
         /\ IF choice = "save edits"
            THEN rename_and_save(rename)
            ELSE Unedited /\ UNCHANGED saved
         /\ last' = [op |-> "saving_choose", choice |-> choice, rename |-> rename]
    /\ UNCHANGED mode
    /\ BaseUnchanged

\* lines 334-346: the menu "Overwrite edits?" is answered with choice
event_saving_choose(choice) ==
    /\ mode.kind = "Saving"
    /\ needs_rename => mode.name # None
    /\ LET rename == IF needs_rename THEN mode.name ELSE None IN
         /\ IF choice = "save edits"
            THEN rename_and_save(rename)
            ELSE Unedited /\ UNCHANGED saved
         /\ last' = [op |-> "saving_choose", choice |-> choice, rename |-> rename]
    /\ mode' = [kind |-> "ViewingDiffs"]
    /\ BaseUnchanged

-----------------------------------------------------------------------------
(* EditMode::event, Loading: plugins::load_edits driven by the wizard *)

\* the fields of a stored overlay record
Schema ==
    {"edits_name", "lane_overrides", "stop_sign_overrides",
     "traffic_signal_overrides"}

\* the stored bytes decode into the expected schema
decodes(b) == DOMAIN b = Schema

\* load(map, name): the stored record read back, or the failure NotFound
\* (no file of that name for the map) or Corrupt (the bytes do not decode)
load(name) ==
    IF <<MapName, name>> \notin DOMAIN saved
    THEN [ok |-> FALSE, error |-> "NotFound"]
    ELSE IF ~decodes(saved[<<MapName, name>>])
    THEN [ok |-> FALSE, error |-> "Corrupt"]
    ELSE [ok |-> TRUE, edits |-> deserialize(saved[<<MapName, name>>])]

\* lines 129-147 with the empty overlay applied when the load fails
event_loading_choose_or_default(n) ==
    /\ mode.kind = "Loading"
    /\ apply_map_edits(IF load(n).ok THEN load(n).edits ELSE no_edits)
    /\ mode' = [kind |-> "ViewingDiffs"]
    /\ last' = [op |-> "load", name |-> n]
    /\ UNCHANGED saved /\ BaseUnchanged

\* lines 129-147: the user picks the name n and the record loads
event_loading_choose(n) ==
    /\ mode.kind = "Loading"
    /\ load(n).ok
    /\ apply_map_edits(load(n).edits)
    /\ mode' = [kind |-> "ViewingDiffs"]
    /\ last' = [op |-> "load", name |-> n]
    /\ UNCHANGED saved /\ BaseUnchanged

\* lines 129, 148: load_edits gives None because the load failed;
\* nothing is applied and the dialog stays open
event_loading_failed(n) ==
    /\ mode.kind = "Loading"
    /\ ~load(n).ok
    /\ last' = [op |-> "load_failed", name |-> n]
    /\ UNCHANGED mode
    /\ Unedited /\ UNCHANGED saved /\ BaseUnchanged

\* lines 148-149: the wizard is aborted
event_loading_abort ==
    /\ mode.kind = "Loading"
    /\ mode' = [kind |-> "ViewingDiffs"]
    /\ last' = [op |-> "loading_abort"]
    /\ Unedited /\ UNCHANGED saved /\ BaseUnchanged

-----------------------------------------------------------------------------
(* EditMode::event, EditingStopSign(i) *)

\* lines 161-195: the turn t of the edited intersection is selected and
\* Space is pressed
event_toggle_turn(t) ==
    /\ mode.kind = "EditingStopSign"
    /\ t \in IntersectionTurns(mode.i)
    /\ LET i    == mode.i
           sign == stop_signs[i]
           np   == next_priority(sign, t)
       IN  /\ apply_map_edits([edits EXCEPT !.stop_sign_overrides =
                                 MapInsert(edits.stop_sign_overrides, i, with_turn(sign, t, np))])
           /\ last' = [op |-> "toggle_turn", turn |-> t,
                       from |-> get_priority(sign, t)]
    /\ UNCHANGED <<mode, saved>>
    /\ BaseUnchanged

\* lines 196-197 handled like the common "quit" of lines 39-43
event_stop_sign_quit_to_splash ==
    /\ mode.kind = "EditingStopSign"
    /\ mode' = [kind |-> "SplashScreen"]
    /\ last' = [op |-> "stop_sign_quit"]
    /\ Unedited /\ UNCHANGED saved /\ BaseUnchanged

\* lines 196-197: no turn is selected and "quit" is chosen
event_stop_sign_quit ==
    /\ mode.kind = "EditingStopSign"
    /\ mode' = [kind |-> "ViewingDiffs"]
    /\ last' = [op |-> "stop_sign_quit"]
    /\ Unedited /\ UNCHANGED saved /\ BaseUnchanged

\* lines 199-200 with every stop sign override dropped
without_stop_sign_clears(e, i) == [e EXCEPT !.stop_sign_overrides = EmptyMap]

\* lines 199-200: a copy of the overlay without the entry of intersection i
without_stop_sign(e, i) ==
    [e EXCEPT !.stop_sign_overrides = MapRemove(e.stop_sign_overrides, i)]

\* lines 198-214: no turn is selected and "reset to default" is chosen
event_reset_to_default ==
    /\ mode.kind = "EditingStopSign"
    /\ apply_map_edits(without_stop_sign(edits, mode.i))
    /\ last' = [op |-> "reset_to_default",
                removed |-> mode.i \in DOMAIN edits.stop_sign_overrides]
    /\ UNCHANGED <<mode, saved>>
    /\ BaseUnchanged

-----------------------------------------------------------------------------
(* EditMode::event, EditingTrafficSignal: TrafficSignalEditor::event *)

\* lines 216-219: the editor completes with the updated signal record sig
event_traffic_signal_commit(sig) ==
    /\ mode.kind = "EditingTrafficSignal"
    /\ apply_map_edits([edits EXCEPT !.traffic_signal_overrides =
                          MapInsert(edits.traffic_signal_overrides, mode.i, sig)])
    /\ mode' = [kind |-> "ViewingDiffs"]
    /\ last' = [op |-> "traffic_signal_commit"]
    /\ UNCHANGED saved /\ BaseUnchanged

\* lines 216-219: the editor completes without a change
event_traffic_signal_cancel ==
    /\ mode.kind = "EditingTrafficSignal"
    /\ mode' = [kind |-> "ViewingDiffs"]
    /\ last' = [op |-> "traffic_signal_cancel"]
    /\ Unedited /\ UNCHANGED saved /\ BaseUnchanged

-----------------------------------------------------------------------------
(* Base maps *)

\* a side of a road as the code's own edits leave it: at most one Parking
\* lane and no two neighbouring Biking lanes
valid_side(types) ==
    /\ Cardinality({k \in DOMAIN types : types[k] = "Parking"}) <= 1
    /\ \A k \in DOMAIN types :
          k + 1 \in DOMAIN types => ~(types[k] = "Biking" /\ types[k + 1] = "Biking")

\* a stop sign record with no two conflicting Priority turns
valid_sign(sign) ==
    \A t, u \in DOMAIN sign.turns :
        conflicts_with(t, u) => ~(sign.turns[t] = "Priority" /\ sign.turns[u] = "Priority")

\* the road with the given lane types per side: ids 1.. forwards, then backwards
road_of(f, b) ==
    [fwd |-> [k \in DOMAIN f |-> k], back |-> [k \in DOMAIN b |-> Len(f) + k]]

base_lt_of(f, b) == f \o b

\* the base maps of the editor specification
EditorRoads ==
    { <<<<"Driving", "Biking", "Parking", "Sidewalk">>, <<"Driving">>>> }

EditorSigns ==
    { [i \in StopSignIntersections |->
         [id |-> i, turns |-> [t \in IntersectionTurns(i) |-> p]]] :
      p \in {"Yield"} }

DefaultSignal == <<{<<3, 1>>}, {<<3, 2>>}>>

\* the editor after the map is loaded and edit mode is entered
InitEditor ==
    /\ lane_type = base_lt
    /\ stop_signs = base_stop_signs
    /\ base_signals = [i \in SignalIntersections |-> DefaultSignal]
    /\ traffic_signals = base_signals
    /\ edits = no_edits
    /\ mode = [kind |-> "ViewingDiffs"]
    /\ last = [op |-> "init"]
    /\ notifications = 0
    /\ spent = 0

\* a session that starts with no stored overlay
InitSession == InitEditor /\ saved = EmptyMap

Init ==
    /\ \E rb \in EditorRoads :
          /\ road = road_of(rb[1], rb[2])
          /\ base_lt = base_lt_of(rb[1], rb[2])
    /\ base_stop_signs \in EditorSigns
    /\ InitSession

\* an overlay edit or a write, within the exploration bound
Spend == spent < MaxEdits /\ spent' = spent + 1

Free == UNCHANGED spent

Next ==
    \/ \E l \in Lanes : event_toggle_lane(l) /\ Spend
    \/ event_quit /\ Free
    \/ event_save_edits /\ Free
    \/ event_load_different_edits /\ Free
    \/ \E i \in StopSignIntersections \cup SignalIntersections :
          event_edit_stop_signs(i) /\ Free
    \/ \E i \in StopSignIntersections \cup SignalIntersections :
          event_edit_traffic_signal(i) /\ Free
    \/ \E n \in Names : event_saving_name(n) /\ Free
    \/ event_saving_abort /\ Free
    \/ event_saving_choose("save edits") /\ Spend
    \/ event_saving_choose("cancel") /\ Free
    \/ \E n \in Names : event_loading_choose(n) /\ Free
    \/ \E n \in Names : event_loading_failed(n) /\ Free
    \/ event_loading_abort /\ Free
    \/ \E t \in IntersectionTurns(1) \cup IntersectionTurns(2) :
          event_toggle_turn(t) /\ Spend
    \/ event_stop_sign_quit /\ Free
    \/ event_reset_to_default /\ Spend
    \/ \E sig \in SignalPlans : event_traffic_signal_commit(sig) /\ Spend
    \/ event_traffic_signal_cancel /\ Free

Spec == Init /\ [][Next]_vars

\* a file cut short: it lacks the mappings of the schema
Truncated == [edits_name |-> "a"]

\* a session that finds the file of the overlay "a" damaged on disk
InitStored ==
    /\ \E rb \in EditorRoads :
          /\ road = road_of(rb[1], rb[2])
          /\ base_lt = base_lt_of(rb[1], rb[2])
    /\ base_stop_signs \in EditorSigns
    /\ InitEditor
    /\ saved = MapInsert(EmptyMap, <<MapName, "a">>, Truncated)

SpecStored == InitStored /\ [][Next]_vars

-----------------------------------------------------------------------------
(* The lane editor alone, over every road *)

\* the sides of length n with valid lane types
Sides(n) == {s \in [1..n -> LaneTypes] : valid_side(s)}

InitLanes ==
    /\ \E f \in Sides(MaxLanes), b \in {<<"Parking">>, <<"Driving">>} :
          /\ road = road_of(f, b)
          /\ base_lt = base_lt_of(f, b)
    /\ base_stop_signs \in EditorSigns
    /\ InitSession

NextLanes == \E l \in Lanes : event_toggle_lane(l) /\ Free

SpecLanes == InitLanes /\ [][NextLanes]_vars

-----------------------------------------------------------------------------
(* The stop sign editor alone, over every default stop sign *)

Signs ==
    { [i \in StopSignIntersections |->
         [id |-> i,
          turns |-> IF i = 1 THEN ts ELSE [t \in IntersectionTurns(i) |-> "Stop"]]] :
      ts \in {x \in [IntersectionTurns(1) -> Priorities] :
                valid_sign([id |-> 1, turns |-> x])} }

InitSigns ==
    /\ road = road_of(<<"Driving">>, <<>>)
    /\ base_lt = base_lt_of(<<"Driving">>, <<>>)
    /\ base_stop_signs \in Signs
    /\ InitSession

NextSigns ==
    \/ \E i \in StopSignIntersections : event_edit_stop_signs(i) /\ Free
    \/ \E t \in IntersectionTurns(1) \cup IntersectionTurns(2) :
          event_toggle_turn(t) /\ Free
    \/ event_stop_sign_quit /\ Free
    \/ event_reset_to_default /\ Free

SpecSigns == InitSigns /\ [][NextSigns]_vars

-----------------------------------------------------------------------------
(* Properties of lane editing *)

\* the lane ids of the side of the road that lane l is on
SideOf(l) == IF dir_and_offset(road, l)[1] THEN road.fwd ELSE road.back

RoadSides == {road.fwd, road.back}

\* C1: on every side of the road at most one lane has type Parking, after any
\* sequence of lane toggles from a base map with at most one Parking lane per side
C1_OneParkingPerSide ==
    \A side \in RoadSides :
        Cardinality({k \in DOMAIN side : lane_type[side[k]] = "Parking"}) <= 1

\* a toggle made a lane Parking on a side where another lane was toggled too
C1_Witness ==
    /\ last.op = "toggle_lane"
    /\ \E side \in RoadSides : \E j, k \in DOMAIN side :
          /\ j # k
          /\ lane_type[side[j]] = "Parking" /\ base_lt[side[j]] # "Parking"
          /\ side[k] \in DOMAIN edits.lane_overrides
          /\ base_lt[side[k]] = "Parking"

\* C2: no two lanes at consecutive positions of a side are both Biking, after
\* any sequence of lane toggles from a base map without neighbouring Biking
\* lanes; the first and the last position of a side included
C2_NoAdjacentBiking ==
    \A side \in RoadSides : \A k \in DOMAIN side :
        k + 1 \in DOMAIN side =>
            ~(lane_type[side[k]] = "Biking" /\ lane_type[side[k + 1]] = "Biking")

\* toggles made both the first and the last lane of a side Biking, and the
\* lane between them was toggled as well
C2_Witness ==
    /\ last.op = "toggle_lane"
    /\ Len(road.fwd) >= 3
    /\ LET first == road.fwd[1]
           mid   == road.fwd[2]
           end   == road.fwd[Len(road.fwd)]
       IN  /\ lane_type[first] = "Biking" /\ base_lt[first] # "Biking"
           /\ lane_type[end] = "Biking" /\ base_lt[end] # "Biking"
           /\ mid \in DOMAIN edits.lane_overrides

\* C3: Sidewalk lanes never change type under any sequence of edit operations:
\* a Sidewalk lane stays Sidewalk and no other lane becomes one, a Sidewalk
\* lane is never offered a toggle, is never a key of lane_overrides, and
\* next_type is never evaluated on Sidewalk (the editor never panics)
C3_SidewalkNeverChanges ==
    /\ mode.kind # "Panicked"
    /\ \A l \in Lanes :
          /\ (lane_type[l] = "Sidewalk") <=> (base_lt[l] = "Sidewalk")
          /\ lane_type[l] = "Sidewalk" =>
                /\ ~ENABLED event_toggle_lane(l)
                /\ l \notin DOMAIN edits.lane_overrides
          /\ lane_type[l] # "Sidewalk" =>
                \A k \in DOMAIN next_type_args(road, l) :
                    next_type_args(road, l)[k] # "Sidewalk"

\* lanes and a stop sign were edited and the overlay was written, on a road
\* that has a Sidewalk lane
C3_Witness ==
    /\ \E l \in Lanes : base_lt[l] = "Sidewalk" /\ lane_type[l] = "Sidewalk"
    /\ edits.lane_overrides # EmptyMap
    /\ edits.stop_sign_overrides # EmptyMap
    /\ <<MapName, edits.edits_name>> \in DOMAIN saved
    /\ last.op = "reset_to_default"

-----------------------------------------------------------------------------
(* Properties of the stop sign priority cycle *)

\* the stop sign after k toggles of its turn t, nothing else happening between
RECURSIVE toggled(_, _, _)
toggled(sign, t, k) ==
    IF k = 0 THEN sign
    ELSE toggled(with_turn(sign, t, next_priority(sign, t)), t, k - 1)

\* a step that is a stop-sign toggle of the turn t
ToggleTurnStep(t) ==
    /\ vars' # vars
    /\ last'.op = "toggle_turn"
    /\ last'.turn = t

StopSignTurns == IntersectionTurns(1) \cup IntersectionTurns(2)

\* every turn of every live stop sign gets a next priority, and toggling it
\* alone leads to Banned after 1 to 4 toggles
ReachesBanned ==
    \A i \in DOMAIN stop_signs : \A t \in DOMAIN stop_signs[i].turns :
        /\ next_priority(stop_signs[i], t) \in Priorities
        /\ \E k \in 1..4 : get_priority(toggled(stop_signs[i], t, k), t) = "Banned"

\* a toggle ends in Priority only if could_be_priority_turn held before it
PriorityOnlyIfFeasible ==
    \A t \in StopSignTurns :
        (ToggleTurnStep(t) /\ get_priority(stop_signs'[t[1]], t) = "Priority")
            => could_be_priority_turn(stop_signs[t[1]], t)

\* C4: the priority cycle is total and reaches Banned within at most 4 toggles
\* of one turn from any priority, and a toggle ends in Priority only when
\* could_be_priority_turn holds for that turn at the time of the toggle
C4_CycleReachesBanned == []ReachesBanned /\ [][PriorityOnlyIfFeasible]_vars

\* a toggle took the third turn from Yield to Priority while the first turn,
\* which does not conflict with it, was Priority
C4_Witness ==
    /\ last.op = "toggle_turn"
    /\ last.turn = <<1, 3>>
    /\ last.from = "Yield"
    /\ get_priority(stop_signs[1], <<1, 3>>) = "Priority"
    /\ get_priority(stop_signs[1], <<1, 1>>) = "Priority"

\* the next priority as the claim tabulates it
TabulatedNext(p, could) ==
    CASE p = "Banned"   -> "Stop"
      [] p = "Stop"     -> "Yield"
      [] p = "Yield"    -> IF could THEN "Priority" ELSE "Banned"
      [] p = "Priority" -> "Banned"

\* a toggle of t commits the tabulated next priority of t
TogglesCommitTabulated ==
    \A t \in StopSignTurns :
        ToggleTurnStep(t) =>
            LET i == t[1]
                p == TabulatedNext(get_priority(stop_signs[i], t),
                                   could_be_priority_turn(stop_signs[i], t))
            IN  /\ get_priority(stop_signs'[i], t) = p
                /\ i \in DOMAIN edits'.stop_sign_overrides
                /\ get_priority(edits'.stop_sign_overrides[i], t) = p

\* a turn at Stop that cannot be Priority goes to Yield and then to Banned
StopYieldBanned ==
    \A i \in DOMAIN stop_signs : \A t \in DOMAIN stop_signs[i].turns :
        (get_priority(stop_signs[i], t) = "Stop"
            /\ ~could_be_priority_turn(stop_signs[i], t)) =>
            /\ get_priority(toggled(stop_signs[i], t, 1), t) = "Yield"
            /\ get_priority(toggled(stop_signs[i], t, 2), t) = "Banned"

\* C5: a stop-sign toggle of turn T commits exactly Banned -> Stop,
\* Stop -> Yield, Yield -> Priority if could_be_priority_turn(T) else Banned,
\* Priority -> Banned; a turn at Stop with could_be_priority_turn false cycles
\* Stop -> Yield -> Banned without passing through Priority
C5_NextPriorityTable == [][TogglesCommitTabulated]_vars /\ []StopYieldBanned

\* a toggle took a turn from Yield to Banned because a conflicting turn of the
\* intersection is Priority
C5_Witness ==
    /\ last.op = "toggle_turn"
    /\ last.from = "Yield"
    /\ get_priority(stop_signs[last.turn[1]], last.turn) = "Banned"
    /\ ~could_be_priority_turn(stop_signs[last.turn[1]], last.turn)

-----------------------------------------------------------------------------
(* The lane type a toggle offers and commits *)

Cycle == <<"Driving", "Parking", "Biking", "Bus">>

\* the type n places after lt in the cycle
After(lt, n) ==
    LET pos == CHOOSE k \in DOMAIN Cycle : Cycle[k] = lt
    IN  Cycle[((pos - 1 + n) % Len(Cycle)) + 1]

\* Parking-uniqueness as specified: no lane of the side other than l is Parking
ParkingUnique(l, lt) ==
    lt = "Parking" =>
        \A k \in DOMAIN SideOf(l) :
            SideOf(l)[k] # l => lane_type[SideOf(l)[k]] # "Parking"

\* Biking-adjacency as specified: neither neighbour of l on its side is Biking
BikingApart(l, lt) ==
    lt = "Biking" =>
        \A k \in DOMAIN SideOf(l) :
            SideOf(l)[k] = l =>
                /\ (k - 1 \in DOMAIN SideOf(l) => lane_type[SideOf(l)[k - 1]] # "Biking")
                /\ (k + 1 \in DOMAIN SideOf(l) => lane_type[SideOf(l)[k + 1]] # "Biking")

Legal(l, lt) == ParkingUnique(l, lt) /\ BikingApart(l, lt)

\* the first type after the lane's current type in the cycle that is legal
FirstLegal(l) ==
    LET ns == {n \in 1..3 : Legal(l, After(lane_type[l], n))}
    IN  IF ns = {} THEN None
        ELSE After(lane_type[l], CHOOSE n \in ns : \A m \in ns : n <= m)

\* the types of the lanes of a side, in order
TypesOf(side) == [k \in DOMAIN side |-> lane_type[side[k]]]

NextValidIsFirstLegal ==
    /\ \A l \in Lanes :
          lane_type[l] # "Sidewalk" => next_valid_type(road, l) = FirstLegal(l)
    /\ TypesOf(road.fwd) = <<"Driving", "Parking", "Sidewalk">> =>
          next_valid_type(road, road.fwd[1]) = "Biking"
    /\ TypesOf(road.fwd) = <<"Biking", "Parking", "Sidewalk">> =>
          next_valid_type(road, road.fwd[1]) = "Bus"

\* a lane whose type changes in a step gets the first legal type, in the live
\* map and in lane_overrides
ToggleCommitsFirstLegal ==
    \A l \in Lanes :
        lane_type'[l] # lane_type[l] =>
            /\ lane_type'[l] = FirstLegal(l)
            /\ l \in DOMAIN edits'.lane_overrides
            /\ edits'.lane_overrides[l] = FirstLegal(l)

\* C6: for every non-Sidewalk lane next_valid_type returns the first type after
\* the lane's current type in the cycle Driving -> Parking -> Biking -> Bus ->
\* Driving that passes Parking-uniqueness and Biking-adjacency on the lane's
\* side, and a lane toggle commits that type; on [Driving, Parking, Sidewalk]
\* the Driving lane's next type is Biking and the then-Biking lane's is Bus
C6_NextValidType == []NextValidIsFirstLegal /\ [][ToggleCommitsFirstLegal]_vars

\* the Driving lane of [Driving, Parking, Sidewalk] was toggled once, to Biking
C6_Witness ==
    /\ last.op = "toggle_lane"
    /\ [k \in DOMAIN road.fwd |-> base_lt[road.fwd[k]]]
          = <<"Driving", "Parking", "Sidewalk">>
    /\ TypesOf(road.fwd) = <<"Biking", "Parking", "Sidewalk">>

-----------------------------------------------------------------------------
(* Properties of saving, applying and loading *)

\* C7: when save is started on an overlay still named "no_edits", nothing is
\* written until a name has been supplied (so nothing is written if none is
\* given), and when a write happens the active overlay already carries the
\* supplied name: the record is written under that name
C7_NameBeforePersist ==
    [][(saved' # saved) =>
          /\ mode.kind = "Saving"
          /\ needs_rename =>
                /\ mode.name # None
                /\ edits'.edits_name = mode.name
          /\ saved' = MapInsert(saved, <<MapName, edits'.edits_name>>, serialize(edits'))
          /\ deserialize(saved'[<<MapName, edits'.edits_name>>]).edits_name
                = edits'.edits_name]_vars

\* an edited overlay still named "no_edits" was saved under the typed name "a"
C7_Witness ==
    /\ last.op = "saving_choose"
    /\ last.choice = "save edits"
    /\ last.rename = "a"
    /\ edits.edits_name = "a"
    /\ edits.lane_overrides # EmptyMap
    /\ DOMAIN saved = {<<MapName, "a">>}

\* C8: lane_overrides holds only entries whose type differs from the base
\* map's type of the lane, also after a lane was toggled back to its base type
C8_OverridesDifferFromBase ==
    \A l \in DOMAIN edits.lane_overrides : edits.lane_overrides[l] # base_lt[l]

\* C9: after every apply the live state is the base default overridden by the
\* overlay entries, for lane types, stop signs and traffic signals; with an
\* empty overlay it is the base map's defaults
C9_EffectiveIsBaseOverridden ==
    /\ \A l \in Lanes :
          lane_type[l] = IF l \in DOMAIN edits.lane_overrides
                         THEN edits.lane_overrides[l] ELSE base_lt[l]
    /\ \A i \in DOMAIN base_stop_signs :
          stop_signs[i] = IF i \in DOMAIN edits.stop_sign_overrides
                          THEN edits.stop_sign_overrides[i] ELSE base_stop_signs[i]
    /\ \A i \in DOMAIN base_signals :
          traffic_signals[i] = IF i \in DOMAIN edits.traffic_signal_overrides
                               THEN edits.traffic_signal_overrides[i]
                               ELSE base_signals[i]
    /\ DOMAIN lane_type = DOMAIN base_lt
    /\ DOMAIN stop_signs = DOMAIN base_stop_signs
    /\ DOMAIN traffic_signals = DOMAIN base_signals
    /\ (/\ edits.lane_overrides = EmptyMap
        /\ edits.stop_sign_overrides = EmptyMap
        /\ edits.traffic_signal_overrides = EmptyMap) =>
          /\ lane_type = base_lt
          /\ stop_signs = base_stop_signs
          /\ traffic_signals = base_signals

\* an empty overlay was loaded and applied after an overlay with lane
\* overrides had been the active one (it was saved as "a")
C9_Witness ==
    /\ last.op = "load"
    /\ edits.lane_overrides = EmptyMap
    /\ edits.stop_sign_overrides = EmptyMap
    /\ edits.traffic_signal_overrides = EmptyMap
    /\ <<MapName, "a">> \in DOMAIN saved
    /\ saved[<<MapName, "a">>].lane_overrides # <<>>
    /\ lane_type = base_lt

-----------------------------------------------------------------------------
(* Properties of the save and load dialogs *)

LiveUnchanged == UNCHANGED <<lane_type, stop_signs, traffic_signals>>

\* the events of an open dialog that complete it with a result
Completes(op) == op \in {"saving_choose", "load"}

\* an abort ends the dialog in ViewingDiffs
AbortReturns ==
    (mode.kind \in {"Saving", "Loading"} /\ vars' # vars
        /\ last'.op \in {"saving_abort", "loading_abort"})
        => mode'.kind = "ViewingDiffs"

\* from the opening of a dialog to its abort, no event changes the active
\* overlay, the live map or the storage
DialogKeepsOverlay ==
    (mode.kind \in {"Saving", "Loading"} /\ ~Completes(last'.op))
        => /\ edits' = edits
           /\ saved' = saved
           /\ LiveUnchanged

\* C11: aborting an open save or load dialog at any step returns the editor to
\* ViewingDiffs without changing the overlay: its name and three mappings are
\* as when the dialog was opened and nothing is persisted, also when a name was
\* typed before the abort
C11_AbortKeepsOverlay == [][AbortReturns /\ DialogKeepsOverlay]_vars

\* the save dialog of an edited, unnamed overlay was aborted after the name
\* "a" had been typed
C11_Witness ==
    /\ last.op = "saving_abort"
    /\ last.typed = "a"
    /\ mode.kind = "ViewingDiffs"
    /\ edits.edits_name = "no_edits"
    /\ edits.lane_overrides # EmptyMap
    /\ saved = EmptyMap

\* a load attempt of a name whose load fails
FailingLoad ==
    /\ mode.kind = "Loading"
    /\ vars' # vars
    /\ last'.op \in {"load", "load_failed"}
    /\ ~load(last'.name).ok

\* C12: a load that fails, with NotFound for an absent name or Corrupt for
\* bytes that do not decode, leaves the overlay state unchanged: nothing is
\* applied, and the active overlay, the effective lane types and the
\* intersection controls are as before
C12_FailedLoadKeepsOverlay ==
    [][FailingLoad => (edits' = edits /\ LiveUnchanged /\ saved' = saved)]_vars

\* the damaged file was picked while the overlay held a lane edit; the name
\* "no_edits" would have failed with NotFound
C12_Witness ==
    /\ last.op = "load_failed"
    /\ mode.kind = "Loading"
    /\ ~load(last.name).ok
    /\ load(last.name).error = "Corrupt"
    /\ load("no_edits").error = "NotFound"
    /\ edits.lane_overrides # EmptyMap
    /\ lane_type # base_lt

-----------------------------------------------------------------------------
(* Properties of the stop sign editor's commits *)

ResetStep ==
    /\ mode.kind = "EditingStopSign"
    /\ vars' # vars
    /\ last'.op = "reset_to_default"

\* the stop sign overrides of the intersections other than i are kept
OtherStopSignsKept(i) ==
    \A j \in StopSignIntersections \ {i} :
       /\ j \in DOMAIN edits'.stop_sign_overrides
             <=> j \in DOMAIN edits.stop_sign_overrides
       /\ j \in DOMAIN edits.stop_sign_overrides
             => edits'.stop_sign_overrides[j] = edits.stop_sign_overrides[j]

\* C13: "reset to default" on the intersection I removes I's entry from
\* stop_sign_overrides, so the effective stop sign of I is the base default
\* whatever toggles came before; every other stop sign override, the lane
\* overrides, the signal overrides and the overlay's name are unchanged
C13_ResetRemovesOneEntry ==
    [][ResetStep =>
          /\ mode.i \notin DOMAIN edits'.stop_sign_overrides
          /\ stop_signs'[mode.i] = base_stop_signs[mode.i]
          /\ OtherStopSignsKept(mode.i)
          /\ edits'.lane_overrides = edits.lane_overrides
          /\ edits'.traffic_signal_overrides = edits.traffic_signal_overrides
          /\ edits'.edits_name = edits.edits_name]_vars

\* intersection 1 was reset and lost its entry while intersection 2 and a
\* lane keep theirs
C13_Witness ==
    /\ last.op = "reset_to_default"
    /\ last.removed
    /\ mode = [kind |-> "EditingStopSign", i |-> 1]
    /\ 1 \notin DOMAIN edits.stop_sign_overrides
    /\ 2 \in DOMAIN edits.stop_sign_overrides
    /\ stop_signs[2] # base_stop_signs[2]
    /\ edits.lane_overrides # EmptyMap

-----------------------------------------------------------------------------
(* Installations of an overlay and the host's notification *)

\* an event installed a new overlay record as the map's active overlay
InstallStep == edits' # edits

\* what the live map holds is what the active overlay derives from the base map
DerivedMatchesOverlay ==
    /\ lane_type = effective_lanes(edits)
    /\ stop_signs = effective_stop_signs(edits)
    /\ traffic_signals = effective_signals(edits)

\* C14: every installation of a new overlay record (lane toggle, stop sign
\* toggle, stop sign reset, successful load and the rename performed by save)
\* gives the host a single derived-state-invalidated notification within the
\* same event, so that between events the overlay never differs from the
\* derived state
C14_InstallNotifiesOnce ==
    /\ [][InstallStep => notifications' = 1]_vars
    /\ []DerivedMatchesOverlay

-----------------------------------------------------------------------------
(* The kind of control of an intersection *)

\* the live map controls the same intersections by stop sign and by signal
\* as the base map, and none by both
ControlKindFixed ==
    /\ DOMAIN stop_signs = DOMAIN base_stop_signs
    /\ DOMAIN traffic_signals = DOMAIN base_signals
    /\ DOMAIN base_stop_signs \cap DOMAIN base_signals = {}

\* each editor is open only on an intersection of its own kind
EditorMatchesControl ==
    /\ mode.kind = "EditingStopSign" => mode.i \in DOMAIN base_stop_signs
    /\ mode.kind = "EditingTrafficSignal" => mode.i \in DOMAIN base_signals

\* C15: no sequence of edits changes the kind of control of an intersection:
\* the stop sign editor is entered only for a stop sign intersection, the
\* signal editor only for a signalled one, no intersection offers both, and
\* every key of stop_sign_overrides is a stop sign intersection
C15_ControlKindKept ==
    /\ ControlKindFixed
    /\ EditorMatchesControl
    /\ DOMAIN edits.stop_sign_overrides \subseteq DOMAIN base_stop_signs
    /\ DOMAIN edits.traffic_signal_overrides \subseteq DOMAIN base_signals

\* the stop sign editor is open on intersection 2 after intersection 1 and
\* the signal of intersection 3 were edited
C15_Witness ==
    /\ mode = [kind |-> "EditingStopSign", i |-> 2]
    /\ last.op = "edit_stop_signs"
    /\ 1 \in DOMAIN edits.stop_sign_overrides
    /\ 3 \in DOMAIN edits.traffic_signal_overrides
    /\ traffic_signals[3] # base_signals[3]

-----------------------------------------------------------------------------
(* The record a stop sign toggle commits *)

\* every stop sign override gives a priority to every turn of its intersection
FullRecords ==
    \A i \in DOMAIN edits.stop_sign_overrides :
       /\ DOMAIN edits.stop_sign_overrides[i].turns = IntersectionTurns(i)
       /\ \A u \in IntersectionTurns(i) :
             edits.stop_sign_overrides[i].turns[u] \in Priorities

\* the record committed by a toggle of t is the effective record of before it
\* with the tabulated next priority at t
ToggleReplacesRecord ==
    \A t \in StopSignTurns :
        ToggleTurnStep(t) =>
            LET i   == t[1]
                old == stop_signs[i]
                new == edits'.stop_sign_overrides[i]
            IN  /\ i \in DOMAIN edits'.stop_sign_overrides
                /\ DOMAIN new.turns = IntersectionTurns(i)
                /\ \A u \in IntersectionTurns(i) :
                      new.turns[u] =
                         IF u = t
                         THEN TabulatedNext(old.turns[t], could_be_priority_turn(old, t))
                         ELSE old.turns[u]

\* C16: a stop sign toggle of the turn T at I commits a full replacement
\* record: stop_sign_overrides[I] gives a priority to every turn of I, equals
\* the effective record of I just before the toggle except at T, and holds the
\* computed next priority at T; no stop_sign_overrides value is ever partial
C16_ToggleCommitsFullRecord == [][ToggleReplacesRecord]_vars /\ []FullRecords

\* the second turn of intersection 1 was toggled after the first: the record
\* keeps the earlier edit and the default of the untouched third turn
C16_Witness ==
    /\ last.op = "toggle_turn"
    /\ last.turn = <<1, 2>>
    /\ 1 \in DOMAIN edits.stop_sign_overrides
    /\ LET r == edits.stop_sign_overrides[1] IN
          /\ r.turns[<<1, 1>>] # base_stop_signs[1].turns[<<1, 1>>]
          /\ r.turns[<<1, 2>>] # base_stop_signs[1].turns[<<1, 2>>]
          /\ r.turns[<<1, 3>>] = base_stop_signs[1].turns[<<1, 3>>]

-----------------------------------------------------------------------------
(* Frame of the two toggles *)

\* the maps m and n differ at the key k and nowhere else
DiffersOnlyAt(m, n, k) ==
    /\ DOMAIN n = DOMAIN m \cup {k}
    /\ \A j \in DOMAIN m \ {k} : n[j] = m[j]
    /\ (k \notin DOMAIN m \/ n[k] # m[k])

LaneToggleStep ==
    /\ mode.kind = "ViewingDiffs"
    /\ vars' # vars
    /\ last'.op = "toggle_lane"

\* a lane toggle changes the entry of one lane, whose effective type changes
\* with it; the other lanes, the lane order, the name and the other mappings
\* stay
LaneToggleFrame ==
    LaneToggleStep =>
        /\ \E l \in Lanes :
              /\ DiffersOnlyAt(edits.lane_overrides, edits'.lane_overrides, l)
              /\ lane_type'[l] = edits'.lane_overrides[l]
              /\ \A k \in Lanes \ {l} : lane_type'[k] = lane_type[k]
        /\ road' = road
        /\ edits'.stop_sign_overrides = edits.stop_sign_overrides
        /\ edits'.traffic_signal_overrides = edits.traffic_signal_overrides
        /\ edits'.edits_name = edits.edits_name
        /\ UNCHANGED <<stop_signs, traffic_signals>>

\* a stop sign toggle changes the entry of the edited intersection only
TurnToggleFrame ==
    \A t \in StopSignTurns :
        ToggleTurnStep(t) =>
            /\ mode.i = t[1]
            /\ DiffersOnlyAt(edits.stop_sign_overrides,
                             edits'.stop_sign_overrides, t[1])
            /\ edits'.lane_overrides = edits.lane_overrides
            /\ edits'.traffic_signal_overrides = edits.traffic_signal_overrides
            /\ edits'.edits_name = edits.edits_name
            /\ UNCHANGED <<lane_type, road, traffic_signals>>

\* C17: each edit action changes exactly one entry of exactly one overlay
\* mapping: a lane toggle only lane_overrides at the selected lane (every
\* other lane's effective type and every road's lane order unchanged), a stop
\* sign toggle only stop_sign_overrides at the edited intersection; the
\* overlay's name and the other two mappings are unchanged by both
C17_ToggleChangesOneEntry == [][LaneToggleFrame /\ TurnToggleFrame]_vars

\* a second lane was toggled in a named overlay that holds a stop sign and a
\* lane entry already
C17_Witness ==
    /\ last.op = "toggle_lane"
    /\ edits.edits_name = "a"
    /\ Cardinality(DOMAIN edits.lane_overrides) = 2
    /\ edits.stop_sign_overrides # EmptyMap

-----------------------------------------------------------------------------
(* The scan of next_valid_type *)

EditableLanes == {l \in Lanes : lane_type[l] # "Sidewalk"}

\* on every candidate of the scan the coded Parking check decides as the
\* specified rule does
ParkingCheckAgrees ==
    \A l \in EditableLanes : \A k \in DOMAIN candidates(road, l) :
        LET c == candidates(road, l)[k] IN
           parking_check(TypesOf(SideOf(l)), dir_and_offset(road, l)[2], c)
              <=> ParkingUnique(l, c)

\* a Parking candidate is accepted whenever no other lane of the lane's own
\* side is Parking, whatever the opposite side holds
OppositeParkingIgnored ==
    \A l \in EditableLanes : \A k \in DOMAIN candidates(road, l) :
        (candidates(road, l)[k] = "Parking" /\ ParkingUnique(l, "Parking"))
            => can_change_lane_type(road, l, "Parking")

\* C18: for every candidate that next_valid_type passes to
\* can_change_lane_type, the Parking check as coded (reject when the lane's
\* side holds any Parking lane, the lane itself included) decides as the
\* specified rule (reject when another lane of that side is Parking), and a
\* Parking lane on the opposite side never causes a rejection
C18_ParkingCheckAsSpecified == ParkingCheckAgrees /\ OppositeParkingIgnored

\* a forward lane was toggled to Parking while the back lane is Parking
C18_Witness ==
    /\ last.op = "toggle_lane"
    /\ lane_type[road.back[1]] = "Parking"
    /\ \E k \in DOMAIN road.fwd :
          /\ lane_type[road.fwd[k]] = "Parking"
          /\ base_lt[road.fwd[k]] # "Parking"
          /\ road.fwd[k] \in DOMAIN edits.lane_overrides

\* the scan of the lane l ends: within three candidates, each the next type of
\* the cycle after the one before, none of them the lane's own type or
\* Sidewalk, and its result is the last candidate or None
ScanEnds(l) ==
    LET cs == candidates(road, l) IN
       /\ Len(cs) <= 3
       /\ \A k \in DOMAIN cs :
             /\ cs[k] \notin {lane_type[l], "Sidewalk", "unending"}
             /\ cs[k] = After(lane_type[l], k)
       /\ \/ next_valid_type(road, l) = None
          \/ /\ cs # <<>>
             /\ next_valid_type(road, l) = cs[Len(cs)]

\* C19: the cycle scan of next_valid_type terminates for every non-Sidewalk
\* lane of every road: it evaluates at most 3 candidate types, never the
\* lane's own type or Sidewalk, and stops when the cycle is back at the
\* lane's type; it reads the road and the lane and changes nothing
C19_ScanTerminates == \A l \in EditableLanes : ScanEnds(l)

\* after a toggle, one lane's scan takes three candidates and another lane's
\* scan takes one
C19_Witness ==
    /\ last.op = "toggle_lane"
    /\ \E l, m \in EditableLanes :
          /\ Len(candidates(road, l)) = 3
          /\ Len(candidates(road, m)) = 1

\* next_valid_type gives the lane l a type of the cycle other than its own
HasAlternative(l) ==
    /\ next_valid_type(road, l) # None
    /\ next_valid_type(road, l) \in {"Driving", "Parking", "Biking", "Bus"}
    /\ next_valid_type(road, l) # lane_type[l]

\* C20: next_valid_type never reports "no legal alternative" for a
\* non-Sidewalk lane: Bus and Driving carry no constraint, so it returns Some
\* type other than the current one for every Driving, Parking, Biking or Bus
\* lane of every road, and a toggle is always offered
C20_AlwaysAnAlternative == \A l \in EditableLanes : HasAlternative(l)

\* the only toggled lane went from Driving to Bus: Parking was refused for
\* another Parking lane of its side and Biking for a Biking neighbour
C20_Witness ==
    /\ last.op = "toggle_lane"
    /\ \E l \in EditableLanes :
          /\ DOMAIN edits.lane_overrides = {l}
          /\ base_lt[l] = "Driving"
          /\ lane_type[l] = "Bus"
          /\ ~ParkingUnique(l, "Parking")
          /\ ~BikingApart(l, "Biking")

-----------------------------------------------------------------------------
(* Conflicting turns of a stop sign *)

PriorityTurns(sign) == {t \in DOMAIN sign.turns : sign.turns[t] = "Priority"}

\* no live stop sign has two conflicting turns at Priority
NoConflictingPriority ==
    \A i \in DOMAIN stop_signs :
        \A t, u \in PriorityTurns(stop_signs[i]) : ~conflicts_with(t, u)

\* a toggle that leaves its turn at Banned, Stop or Yield adds no Priority turn
LowerToggleAddsNoPriority ==
    \A t \in StopSignTurns :
        (ToggleTurnStep(t) /\ get_priority(stop_signs'[t[1]], t) # "Priority")
            => \A i \in DOMAIN stop_signs :
                  PriorityTurns(stop_signs'[i]) \subseteq PriorityTurns(stop_signs[i])

\* C21: at every stop sign intersection whose starting record has no two
\* conflicting Priority turns, no two conflicting turns are both Priority
\* after any sequence of toggles of any of its turns in any order; toggles
\* that move a turn to Banned, Stop or Yield never break this
C21_NoConflictingPriority ==
    []NoConflictingPriority /\ [][LowerToggleAddsNoPriority]_vars

\* the middle turn of intersection 1, which conflicts with both its
\* neighbours, was toggled from Yield while both were Priority by toggles
C21_Witness ==
    /\ last.op = "toggle_turn"
    /\ last.turn = <<1, 2>>
    /\ last.from = "Yield"
    /\ PriorityTurns(stop_signs[1]) = {<<1, 1>>, <<1, 3>>}
    /\ PriorityTurns(base_stop_signs[1]) = {}
    /\ 1 \in DOMAIN edits.stop_sign_overrides

-----------------------------------------------------------------------------
(* One stay in Saving *)

\* the event answers the menu "Overwrite edits?"
MenuAnswered == vars' # vars /\ last'.op = "saving_choose"

\* the overlay is renamed or storage is written only in the event that
\* answers the menu with "save edits"
PersistOnlyOnSaveEdits ==
    (edits' # edits \/ saved' # saved)
        => (MenuAnswered /\ last'.choice = "save edits")

\* the event that completes the dialog leaves Saving, so a stay holds at most
\* one write
CompletionLeavesSaving == MenuAnswered => mode'.kind = "ViewingDiffs"

CancelKeeps ==
    (MenuAnswered /\ last'.choice = "cancel") => (edits' = edits /\ saved' = saved)

\* C22: within one stay in Saving the overlay is persisted at most once and
\* only in the event where "save edits" is chosen: while the dialog waits for
\* input nothing is renamed or written, "cancel" neither renames nor writes,
\* and the mode leaves Saving in the event in which the dialog completes
C22_SavePersistsOnce ==
    [][mode.kind = "Saving" =>
          (PersistOnlyOnSaveEdits /\ CompletionLeavesSaving /\ CancelKeeps)]_vars

\* a later save dialog of the stored overlay "a" was cancelled after another
\* edit: the stored record is still the one of the first save
C22_Witness ==
    /\ last.op = "saving_choose"
    /\ last.choice = "cancel"
    /\ mode.kind = "ViewingDiffs"
    /\ edits.edits_name = "a"
    /\ <<MapName, "a">> \in DOMAIN saved
    /\ saved[<<MapName, "a">>] # serialize(edits)

-----------------------------------------------------------------------------
(* The modes of the editor *)

\* the edit modes other than ViewingDiffs
SubModes == {"Saving", "Loading", "EditingStopSign", "EditingTrafficSignal"}

ModeKinds == SubModes \cup {"ViewingDiffs", "SplashScreen"}

\* a mode other than ViewingDiffs is entered from ViewingDiffs only
EnteredFromHub ==
    (mode'.kind \in SubModes /\ mode'.kind # mode.kind)
        => mode.kind = "ViewingDiffs"

\* an intersection editor is not moved to another intersection
EditorKeepsIntersection ==
    (mode.kind \in {"EditingStopSign", "EditingTrafficSignal"}
        /\ mode'.kind = mode.kind) => mode'.i = mode.i

\* the edit mode that follows a mode other than ViewingDiffs is ViewingDiffs
ReturnsToHub ==
    (mode.kind \in SubModes /\ mode'.kind # mode.kind)
        => mode'.kind \in {"ViewingDiffs", "SplashScreen"}

\* edit mode is left only by "quit" in ViewingDiffs, Saving or Loading
SplashOnlyOnQuit ==
    (mode'.kind = "SplashScreen" /\ mode.kind # "SplashScreen")
        => /\ mode.kind \in {"ViewingDiffs", "Saving", "Loading"}
           /\ last'.op = "quit"

\* "quit" in the stop sign editor goes to ViewingDiffs and keeps the overlay
StopSignQuitKeeps ==
    (mode.kind = "EditingStopSign" /\ vars' # vars /\ last'.op = "stop_sign_quit")
        => /\ mode'.kind = "ViewingDiffs"
           /\ edits' = edits
           /\ saved' = saved
           /\ LiveUnchanged

\* C23: ViewingDiffs is the hub of the edit modes: Saving, Loading,
\* EditingStopSign and EditingTrafficSignal are entered only from it, the only
\* edit mode that follows them is ViewingDiffs, the splash screen is reached
\* only by "quit" in ViewingDiffs, Saving or Loading, and "quit" in the stop
\* sign editor returns to ViewingDiffs without changing the overlay
C23_ViewingDiffsIsHub ==
    /\ [](mode.kind \in ModeKinds)
    /\ [][/\ EnteredFromHub
          /\ EditorKeepsIntersection
          /\ ReturnsToHub
          /\ SplashOnlyOnQuit
          /\ StopSignQuitKeeps]_vars

\* the stop sign editor was left by "quit" with its toggles kept, after a
\* save of the overlay
C23_Witness ==
    /\ last.op = "stop_sign_quit"
    /\ mode.kind = "ViewingDiffs"
    /\ edits.stop_sign_overrides # EmptyMap
    /\ stop_signs # base_stop_signs
    /\ saved # EmptyMap

====
